---- MODULE Spec2Model ----
(***************************************************************************)
(* The voyage-timeline script port-sail-calc.py as a state machine.        *)
(*                                                                         *)
(* The script is a straight-line batch pipeline over one DataFrame:        *)
(*   line 8      read_csv                       (Init)                     *)
(*   line 11     event_datetime column          (ToDatetime)               *)
(*   line 14     sort_values, in place          (SortValues)               *)
(*   lines 27-32 prev_lat, prev_lon, distance   (CalculateDistances)       *)
(*   lines 35-39 prev_event, duration, stage    (CalculateStages)          *)
(* The DataFrame is modelled column-major, as pandas holds it: `data` is a *)
(* record of equally long sequences, one per column.                       *)
(*                                                                         *)
(* Encoding of cells.  Numeric cells are integers.  A missing numeric cell *)
(* (pandas NaN) is NaN, a text cell in a numeric column is NonNumeric;     *)
(* both lie outside every modelled value domain.  A missing datetime or    *)
(* timedelta (pandas NaT) is the empty tuple NaT.  A missing cell of the   *)
(* text column `event` is the string NoEvent.                              *)
(*                                                                         *)
(* Time.  Line 11 calls pd.to_datetime without `unit`, so dateStamp is     *)
(* added to the origin 1899-12-30 as NANOSECONDS, while timeStamp is added *)
(* as DAYS (unit='D').  An instant is therefore the pair <<days, nanos>>   *)
(* counted from the origin; the modelled dateStamp values stay below one   *)
(* day of nanoseconds, so the pair is normalised and orders                *)
(* lexicographically.  A timedelta is a pair <<days, nanos>> as well, and  *)
(* duration_hours is the pair <<hours, nanos>> standing for                *)
(* hours + nanos / 3.6e12 hours.                                           *)
(***************************************************************************)
EXTENDS Integers, Sequences, FiniteSets, TLC

VARIABLES csv, data, pc

vars == <<csv, data, pc>>

\* Largest number of rows of voyages.csv that is explored.
MaxRecords == 3

NaN == -1
NonNumeric == -2
NaT == <<>>
NoEvent == "NaN"

\* ------------------------------------------------------------------ input
Events == {"SOSP", "EOSP", "NOON"}

\* <<dateStamp, timeStamp>> cells that resolve to an instant: three distinct
\* instants, 256 ns and one day apart (a multiple of 256 ns is added to the
\* origin exactly also when a missing cell makes the column float64).
ResolvableStamps == {<<0, 0>>, <<256, 0>>, <<0, 1>>}

\* <<dateStamp, timeStamp>> cells with a text component.
TextStamps == {<<NonNumeric, 0>>, <<0, NonNumeric>>}

Row(stamp, pos, ev) ==
    [dateStamp |-> stamp[1], timeStamp |-> stamp[2],
     lat |-> pos[1], lon |-> pos[2], event |-> ev]

\* The rows voyages.csv may hold: every event at every resolvable instant at
\* the first position, both sea-passage events at every resolvable instant
\* at the second, and rows with one anomalous cell.
Rows ==
    {Row(s, <<0, 0>>, e) : s \in ResolvableStamps, e \in Events}
    \cup {Row(s, <<1, 1>>, e) : s \in ResolvableStamps, e \in {"SOSP", "EOSP"}}
    \cup {Row(<<NaN, 0>>, <<0, 0>>, "SOSP"), Row(<<0, NaN>>, <<0, 0>>, "EOSP")}
    \cup {Row(s, <<0, 0>>, "SOSP") : s \in TextStamps}
    \cup {Row(<<0, 0>>, <<NaN, 0>>, "SOSP"), Row(<<0, 0>>, <<0, NaN>>, "EOSP")}

Column(rows, name) == [i \in 1..Len(rows) |-> rows[i][name]]

\* pd.read_csv: the file's rows as a DataFrame of five columns under the
\* default index, which labels each row with its position in the file (here
\* counted from 1) and travels with the row when the frame is sorted.
read_csv(rows) ==
    [index |-> [i \in 1..Len(rows) |-> i],
     dateStamp |-> Column(rows, "dateStamp"),
     timeStamp |-> Column(rows, "timeStamp"),
     lat |-> Column(rows, "lat"),
     lon |-> Column(rows, "lon"),
     event |-> Column(rows, "event")]

NRows == Len(data.event)

\* --------------------------------------------------------------- line 11
\* pd.to_datetime / pd.to_timedelta raise ValueError on a column that holds
\* text: the column is then not numeric.
IsNumericColumn(col) == \A i \in 1..Len(col) : col[i] # NonNumeric

\* One cell of event_datetime: origin + dateStamp ns + timeStamp days.  A
\* missing stamp gives NaT on either side of the sum, and NaT + x is NaT.
event_datetime(dateStamp, timeStamp) ==
    IF dateStamp = NaN \/ timeStamp = NaN THEN NaT
    ELSE <<timeStamp, dateStamp>>

ToDatetime ==
    /\ pc = "to_datetime"
    /\ IF IsNumericColumn(data.dateStamp) /\ IsNumericColumn(data.timeStamp)
       THEN /\ data' = data @@
                   [event_datetime |->
                       [i \in 1..NRows |->
                           event_datetime(data.dateStamp[i], data.timeStamp[i])]]
            /\ pc' = "sort_values"
       ELSE /\ pc' = "raised"
            /\ UNCHANGED data
    /\ UNCHANGED csv

\* --------------------------------------------------------------- line 14
\* Comparison of instants; every comparison with NaT is false.
TimeLess(a, b) ==
    /\ a # NaT
    /\ b # NaT
    /\ \/ a[1] < b[1]
       \/ a[1] = b[1] /\ a[2] < b[2]

Indexers(n) ==
    {p \in [1..n -> 1..n] : \A i, j \in 1..n : i # j => p[i] # p[j]}

\* sort_values with ascending=False: the latest instant first.
argsort_descending(keys) ==
    {p \in Indexers(Len(keys)) :
        \A i, j \in 1..Len(keys) : i < j =>
            /\ keys[p[i]] = NaT => keys[p[j]] = NaT
            /\ keys[p[i]] = NaT /\ keys[p[j]] = NaT => p[i] < p[j]
            /\ keys[p[i]] # NaT /\ keys[p[j]] # NaT
                   => ~TimeLess(keys[p[i]], keys[p[j]])}

\* The indexers sort_values(by=['event_datetime']) may compute: ascending,
\* NaT keys last in their input order (na_position='last'), and, the sort
\* kind being the default 'quicksort', equal keys in an order that the
\* sorting routine of the installed numpy decides.
argsort(keys) ==
    {p \in Indexers(Len(keys)) :
        \A i, j \in 1..Len(keys) : i < j =>
            /\ keys[p[i]] = NaT => keys[p[j]] = NaT
            /\ keys[p[i]] = NaT /\ keys[p[j]] = NaT => p[i] < p[j]
            /\ keys[p[i]] # NaT /\ keys[p[j]] # NaT
                   => ~TimeLess(keys[p[j]], keys[p[i]])}

take(col, indexer) == [i \in 1..Len(col) |-> col[indexer[i]]]

SortValues ==
    /\ pc = "sort_values"
    /\ \E indexer \in argsort(data.event_datetime) :
           data' = [c \in DOMAIN data |-> take(data[c], indexer)]
    /\ pc' = "distances"
    /\ UNCHANGED csv

\* ------------------------------------------------------------ lines 17-32
\* Series.shift(-1): every cell moves up one position, the last is missing.
shift_up(col, missing) ==
    [i \in 1..Len(col) |-> IF i = Len(col) THEN missing ELSE col[i + 1]]

\* Series.shift(1): every cell moves down one position, the first is missing.
shift(col, missing) ==
    [i \in 1..Len(col) |-> IF i = 1 THEN missing ELSE col[i - 1]]

Abs(x) == IF x < 0 THEN -x ELSE x

\* haversine, in metres, on the modelled positions (degrees 0 and 1); NaN in
\* any argument propagates through radians, sin, cos, sqrt and atan2.
haversine(lat1, lon1, lat2, lon2) ==
    IF NaN \in {lat1, lon1, lat2, lon2} THEN NaN
    ELSE LET dlat == Abs(lat2 - lat1)
             dlon == Abs(lon2 - lon1)
         IN  CASE dlat = 0 /\ dlon = 0 -> 0
               [] dlat = 0 /\ dlon = 1 /\ lat1 = 0 -> 111195
               [] dlat = 0 /\ dlon = 1 /\ lat1 = 1 -> 111178
               [] dlat = 1 /\ dlon = 0 -> 111195
               [] dlat = 1 /\ dlon = 1 -> 157249

\* The lambda without its null test.
distance_unguarded(lat, lon, prev_lat, prev_lon) ==
    haversine(lat, lon, prev_lat, prev_lon)

\* The lambda of data.apply: only prev_lat is tested for null.
distance_travelled(lat, lon, prev_lat, prev_lon) ==
    IF prev_lat # NaN THEN haversine(lat, lon, prev_lat, prev_lon) ELSE 0

CalculateDistances ==
    /\ pc = "distances"
    /\ LET prev_lat == shift(data.lat, NaN)
           prev_lon == shift(data.lon, NaN)
       IN  data' = data @@
               [prev_lat |-> prev_lat,
                prev_lon |-> prev_lon,
                distance_travelled |->
                    [i \in 1..NRows |->
                        distance_travelled(data.lat[i], data.lon[i],
                                           prev_lat[i], prev_lon[i])]]
    /\ pc' = "stages"
    /\ UNCHANGED csv

\* ------------------------------------------------------------ lines 35-39
\* (event_datetime - prev_event_datetime).dt.total_seconds() / 3600.0
duration_hours(t, prev_t) ==
    IF t = NaT \/ prev_t = NaT THEN NaT
    ELSE <<24 * (t[1] - prev_t[1]), t[2] - prev_t[2]>>

\* The nested np.where with the two labels exchanged.
stage_swapped(event, prev_event) ==
    IF event = "SOSP" /\ prev_event = "EOSP" THEN "At Port"
    ELSE IF event = "EOSP" /\ prev_event = "SOSP" THEN "At Sea"
    ELSE "Unknown"

\* The nested np.where of lines 38-39.
stage(event, prev_event) ==
    IF event = "SOSP" /\ prev_event = "EOSP" THEN "At Sea"
    ELSE IF event = "EOSP" /\ prev_event = "SOSP" THEN "At Port"
    ELSE "Unknown"

CalculateStages ==
    /\ pc = "stages"
    /\ LET prev_event == shift(data.event, NoEvent)
           prev_event_datetime == shift(data.event_datetime, NaT)
       IN  data' = data @@
               [prev_event |-> prev_event,
                prev_event_datetime |-> prev_event_datetime,
                duration_hours |->
                    [i \in 1..NRows |->
                        duration_hours(data.event_datetime[i],
                                       prev_event_datetime[i])],
                stage |->
                    [i \in 1..NRows |-> stage(data.event[i], prev_event[i])]]
    /\ pc' = "done"
    /\ UNCHANGED csv

\* ------------------------------------------------------------------ system
Init ==
    /\ csv \in UNION {[1..n -> Rows] : n \in 1..MaxRecords}
    /\ data = read_csv(csv)
    /\ pc = "to_datetime"

Next ==
    \/ ToDatetime
    \/ SortValues
    \/ CalculateDistances
    \/ CalculateStages

Spec == Init /\ [][Next]_vars

\* ------------------------------------------------------------------ claims
Done == pc = "done"

Positions2 == 2..NRows

\* The instant of row i of the file, as line 11 resolves it.
csv_time(i) == event_datetime(csv[i].dateStamp, csv[i].timeStamp)

\* a <= b on instants; false when either is NaT.
TimeLeq(a, b) == a # NaT /\ b # NaT /\ (a = b \/ TimeLess(a, b))

AllStampsResolve == \A i \in 1..Len(csv) : csv_time(i) # NaT

\* C1: in the finished timeline, for every sorted position i > 1 (the first
\* position being 1), stage is "At Sea" exactly when the event is SOSP and
\* the event one position earlier is EOSP, "At Port" exactly when the event
\* is EOSP and the event one position earlier is SOSP, and "Unknown" in
\* every other case.
C1_StageCorrectness ==
    Done => \A i \in Positions2 :
        LET sea == data.event[i] = "SOSP" /\ data.event[i - 1] = "EOSP"
            port == data.event[i] = "EOSP" /\ data.event[i - 1] = "SOSP"
        IN  /\ data.stage[i] = "At Sea" <=> sea
            /\ data.stage[i] = "At Port" <=> port
            /\ ~sea /\ ~port => data.stage[i] = "Unknown"

\* C1 witness: a finished timeline that the sort has reordered, with an
\* "At Sea" and an "At Port" row after the first.
C1_Witness ==
    /\ Done
    /\ data.index[1] # 1
    /\ \E i, j \in Positions2 :
          /\ data.stage[i] = "At Sea"
          /\ data.stage[j] = "At Port"

\* The file holds the events EOSP, SOSP, EOSP in strictly increasing time.
EospSospEosp ==
    /\ Len(csv) = 3
    /\ csv[1].event = "EOSP" /\ csv[2].event = "SOSP" /\ csv[3].event = "EOSP"
    /\ TimeLess(csv_time(1), csv_time(2))
    /\ TimeLess(csv_time(2), csv_time(3))

C3_StableSort ==
    Done => \A i, j \in 1..NRows :
        i < j /\ data.event_datetime[i] # NaT
              /\ data.event_datetime[i] = data.event_datetime[j]
        => /\ data.index[i] < data.index[j]
           /\ j = i + 1 => data.duration_hours[j] = <<0, 0>>

\* C4: for a row with a predecessor, a missing latitude or longitude of the
\* row or of its predecessor gives a distance of exactly 0.
C4_MissingCoordinateIsZero ==
    Done => \A i \in Positions2 :
        NaN \in {data.lat[i], data.lon[i], data.lat[i - 1], data.lon[i - 1]}
        => data.distance_travelled[i] = 0

\* C5: when a date stamp or time stamp of the file is missing or not
\* numeric, the run raises at the conversion and goes no further: no
\* timeline is sorted or enriched.
C5_MalformedTimestampAborts ==
    (\E i \in 1..Len(csv) :
        \/ csv[i].dateStamp \in {NaN, NonNumeric}
        \/ csv[i].timeStamp \in {NaN, NonNumeric})
    => pc \in {"to_datetime", "raised"}

\* C6: the first row of the finished timeline has distance 0, stage
\* "Unknown", no prev_lat, prev_lon, prev_event or prev_event_datetime, and
\* an undefined duration, whatever its event and coordinates.
C6_FirstRecord ==
    Done =>
        /\ data.distance_travelled[1] = 0
        /\ data.stage[1] = "Unknown"
        /\ data.prev_lat[1] = NaN
        /\ data.prev_lon[1] = NaN
        /\ data.prev_event[1] = NoEvent
        /\ data.prev_event_datetime[1] = NaT
        /\ data.duration_hours[1] = NaT

\* C6 witness: a finished timeline of several rows whose first row is an
\* EOSP away from the position 0, 0 and is followed by a SOSP.
C6_Witness ==
    /\ Done
    /\ NRows > 1
    /\ data.event[1] = "EOSP"
    /\ data.lat[1] = 1
    /\ data.event[2] = "SOSP"

\* C7: the finished timeline is ordered by event_datetime, each row's
\* instant being at most the next row's, and it holds exactly the rows of
\* the file, each once.
C7_MonotonicTime ==
    Done =>
        /\ \A i \in 1..(NRows - 1) :
               TimeLeq(data.event_datetime[i], data.event_datetime[i + 1])
        /\ NRows = Len(csv)
        /\ \A k \in 1..Len(csv) : \E i \in 1..NRows : data.index[i] = k
        /\ \A i \in 1..NRows :
               /\ data.dateStamp[i] = csv[data.index[i]].dateStamp
               /\ data.timeStamp[i] = csv[data.index[i]].timeStamp
               /\ data.lat[i] = csv[data.index[i]].lat
               /\ data.lon[i] = csv[data.index[i]].lon
               /\ data.event[i] = csv[data.index[i]].event

\* C8: for every sorted position i > 1 the prev_ columns hold the latitude,
\* longitude, event and instant of position i - 1, and duration_hours is the
\* difference of the two instants in hours; the duration is undefined for
\* the first row and for no other.
C8_PredecessorLinkage ==
    Done =>
        /\ data.duration_hours[1] = NaT
        /\ \A i \in Positions2 :
               /\ data.prev_lat[i] = data.lat[i - 1]
               /\ data.prev_lon[i] = data.lon[i - 1]
               /\ data.prev_event[i] = data.event[i - 1]
               /\ data.prev_event_datetime[i] = data.event_datetime[i - 1]
               /\ data.duration_hours[i] # NaT
               /\ data.duration_hours[i] =
                      <<24 * (data.event_datetime[i][1]
                                  - data.event_datetime[i - 1][1]),
                        data.event_datetime[i][2]
                            - data.event_datetime[i - 1][2]>>

\* A duration <<hours, nanos>> is not negative; the nanos of the model stay
\* far below one hour.
NonNegative(d) == d[1] > 0 \/ (d[1] = 0 /\ d[2] >= 0)

\* C10: when every stamp of the file resolves, no row after the first of the
\* finished timeline has a negative duration, whatever the order of the rows
\* in the file and whichever stamps are equal.
C10_DurationNonNegative ==
    Done /\ AllStampsResolve => \A i \in Positions2 :
        /\ data.duration_hours[i] # NaT
        /\ NonNegative(data.duration_hours[i])

\* C10 witness: a finished timeline of a file whose stamps all resolve, whose
\* first row is later than its second and whose last two rows are equal in
\* time.
C10_Witness ==
    /\ Done
    /\ AllStampsResolve
    /\ Len(csv) = 3
    /\ TimeLess(csv_time(2), csv_time(1))
    /\ csv_time(2) = csv_time(3)

====
